---- MODULE Spec2Model ----
(***************************************************************************)
(* Sharing the MSP430 peripherals between main and the TIMER0_A1 interrupt *)
(* handler: examples/timer-oncecell.rs (pattern "A", a OnceCell behind an   *)
(* interrupt Mutex) and examples/timer-unsafe.rs (pattern "B",             *)
(* Peripherals::steal in both contexts).                                    *)
(*                                                                         *)
(* Spec     the two programs running on the single core, with the timer    *)
(*          hardware raising compare matches and vectoring to the handler. *)
(* SpecApi  the operations the programs are built from (take, the cell's   *)
(*          set and get, the masked region, unmask, the handler body, the  *)
(*          initializer's GPIO writes) applied in every order.             *)
(***************************************************************************)
EXTENDS Integers, Sequences, FiniteSets, TLC

VARIABLES
    pattern,    \* "A" timer-oncecell.rs, "B" timer-unsafe.rs
    pc,         \* main's position
    hpc,        \* TIMER0_A1's position, "idle" when it is not active
    gie,        \* SR.GIE, the global interrupt-enable flag
    stack,      \* the GIE bits of the status registers pushed at interrupt entry
    status,     \* the status register interrupt::free read on entry
    cs,         \* the CriticalSection tokens alive: "main", "free", "isr"
    taken,      \* the latch behind Peripherals::take
    cell,       \* PERIPHERALS: Empty or the stored Peripherals
    regs,       \* the memory-mapped registers the programs touch
    matches,    \* compare matches the timer produced
    entries,    \* activations of TIMER0_A1 started
    served,     \* activations of TIMER0_A1 completed
    unmasks,    \* executions of enable_cs
    op,         \* SpecApi: the last operation applied
    ret,        \* SpecApi: what it returned
    pre,        \* SpecApi: the state it was applied to
    calls,      \* SpecApi: operations applied
    first,      \* SpecApi: values fixed by the first take / set / initializer
    halted,     \* the panic handler was entered
    trace,      \* the register accesses made so far, in order
    cleared,    \* the value of matches when the handler last cleared CCIFG
    entry,      \* the state at the last interrupt entry
    twin        \* a second program, run on the same schedule as this one

vars == <<pattern, pc, hpc, gie, stack, status, cs, taken, cell, regs, matches,
          entries, served, unmasks, op, ret, pre, calls, first, halted,
          trace, cleared, entry, twin>>

progVars == <<pattern, pc, hpc, stack, status, cs, matches, entries, served, unmasks>>
apiVars == <<op, ret, pre, calls, first>>
logVars == <<trace, cleared, entry>>

\* Compare matches the timer may produce in one run.
MaxMatches == 3
\* Operations SpecApi applies in one run.
MaxCalls == 4

\* Bits of P1DIR / P1OUT that are followed: the two LEDs, and bit 1, which no
\* code writes.
Bits == {0, 1, 6}
Leds == {0, 6}

Empty == "Empty"
Periph == "Peripherals"
\* What a cell may be asked to store.
Values == {Periph, "Other"}

----------------------------------------------------------------------------
(* Library operations, by their contracts.                                 *)

\* take() that hands the peripherals out and forgets to set the latch.
takeNoLatch(t) == [taken |-> t, ret |-> IF t THEN "None" ELSE Periph]

\* Peripherals::take(): Some(Peripherals) while the latch is clear, None after.
take(t) == [taken |-> TRUE, ret |-> IF t THEN "None" ELSE Periph]

\* Peripherals::steal(): a view, no bookkeeping, no failure.
steal(t) == [taken |-> t, ret |-> Periph]

\* A set that overwrites.
CellSetOverwrite(c, v) == [cell |-> v, ret |-> "Ok"]

\* OnceCell::set: fills an empty cell; a filled one is left alone and the
\* value handed back as the error.
CellSet(c, v) ==
    IF c = Empty THEN [cell |-> v, ret |-> "Ok"]
                 ELSE [cell |-> c, ret |-> "AlreadyInitialized"]

\* A get with the test inverted.
CellGetInverted(c) == IF c # Empty THEN "NotYetInitialized" ELSE c

\* OnceCell::get: the stored value, or none.
CellGet(c) == IF c = Empty THEN "NotYetInitialized" ELSE c

\* A free that enables interrupts on exit whatever it read on entry.
FreeRestoreEnable(saved, now) == TRUE

\* What interrupt::free leaves in GIE: the flag as it was read on entry.
FreeRestore(saved, now) == saved

----------------------------------------------------------------------------
(* Register accesses of main and of the handler.                           *)

\* wdtctl.write(|w| w.bits(0x5A00).wdthold().set_bit())
WriteWdtctl(r) == [r EXCEPT !.wdtpw = 23040, !.wdthold = TRUE]

\* p1dir.modify(|_, w| w.p0().set_bit().p6().set_bit())
ModifyP1dir(r) == [r EXCEPT !.p1dir = [b \in Bits |-> IF b \in Leds THEN TRUE ELSE @[b]]]

\* p1out.modify(|_, w| w.p0().set_bit().p6().clear_bit())
InitP1out(r) ==
    [r EXCEPT !.p1out = [b \in Bits |-> IF b = 0 THEN TRUE
                                        ELSE IF b = 6 THEN FALSE ELSE @[b]]]

\* bcsctl3.modify(|_, w| w.lfxt1s().lfxt1s_2())
ModifyBcsctl3(r) == [r EXCEPT !.lfxt1s = 2]

\* bcsctl1.modify(|_, w| w.diva().diva_1())
ModifyBcsctl1(r) == [r EXCEPT !.diva = 1]

\* ta0ccr0.write(|w| w.bits(1200))
WriteTa0ccr0(r) == [r EXCEPT !.ta0ccr0 = 1200]

\* ta0ctl.modify(|_, w| w.tassel().tassel_1().mc().mc_1())
ModifyTa0ctl(r) == [r EXCEPT !.tassel = 1, !.mc = 1]

\* ta0cctl1.modify(|_, w| w.ccie().set_bit())
EnableCcie(r) == [r EXCEPT !.ccie = TRUE]

\* ta0ccr1.write(|w| w.bits(600))
WriteTa0ccr1(r) == [r EXCEPT !.ta0ccr1 = 600]

\* The handler leaving the pending flag as it is.
ClearNothing(r) == r

\* The handler clearing a bit of TA0CTL in place of one of TA0CCTL1.
ClearInTa0ctl(r) == [r EXCEPT !.mc = 0]

\* The handler clearing the enable bit in place of the pending flag.
ClearCcie(r) == [r EXCEPT !.ccie = FALSE]

\* ta0cctl1.modify(|_, w| w.ccifg().clear_bit())
ClearCcifg(r) == [r EXCEPT !.ccifg = FALSE]

\* The handler writing back the complement of the whole register.
ToggleAllBits(r) == [r EXCEPT !.p1out = [b \in Bits |-> ~@[b]]]

\* The handler toggling p0 and writing p6 back as read.
ToggleP0Only(r) ==
    [r EXCEPT !.p1out = [b \in Bits |-> IF b = 0 THEN ~@[b] ELSE @[b]]]

\* p1out.modify(|r, w| w.p0().bit(!r.p0().bit()).p6().bit(!r.p6().bit()))
ToggleP1out(r) ==
    [r EXCEPT !.p1out = [b \in Bits |-> IF b \in Leds THEN ~@[b] ELSE @[b]]]

\* The handler's two register accesses, in order.
HandlerBody(r) == ToggleP1out(ClearCcifg(r))

\* The registers after a reset. P1OUT is not reset by the hardware.
ResetRegs ==
    { [wdtpw |-> 0, wdthold |-> FALSE,
       p1dir |-> [b \in Bits |-> FALSE], p1out |-> o,
       lfxt1s |-> 0, diva |-> 0,
       ta0ccr0 |-> 0, tassel |-> 0, mc |-> 0,
       ccie |-> FALSE, ccifg |-> FALSE, ta0ccr1 |-> 0] : o \in [Bits -> BOOLEAN] }

\* The state an operation is applied to, and its argument.
Snap(a) == [gie |-> gie, cell |-> cell, taken |-> taken, regs |-> regs, arg |-> a]

\* The register each field of regs belongs to.
RegOfField ==
    [wdtpw |-> "wdtctl", wdthold |-> "wdtctl", p1dir |-> "p1dir", p1out |-> "p1out",
     lfxt1s |-> "bcsctl3", diva |-> "bcsctl1", ta0ccr0 |-> "ta0ccr0",
     tassel |-> "ta0ctl", mc |-> "ta0ctl", ccie |-> "ta0cctl1", ccifg |-> "ta0cctl1",
     ta0ccr1 |-> "ta0ccr1"]

\* The registers whose contents differ between r and r2.
Changed(r, r2) == {RegOfField[f] : f \in {g \in DOMAIN r : r[g] # r2[g]}}

\* One access: the context making it, the register it names, the registers it
\* changed, and GIE and the count of unmasks when it was made.
Access(ctx, reg, r, r2) ==
    [ctx |-> ctx, reg |-> reg, changed |-> Changed(r, r2), gie |-> gie,
     unmasks |-> unmasks]

\* Nothing taken, set or initialized yet; the outputs as they are.
Fresh(r) == [takes |-> 0, somes |-> 0, sets |-> 0, stored |-> Empty,
             inited |-> FALSE, out0 |-> r.p1out, n |-> 0]

----------------------------------------------------------------------------
(* main.                                                                   *)

\* main with the unmask ahead of the cell's set.
MainOrderEnableFirst(pat) ==
    IF pat = "A"
    THEN <<"take", "wdtctl", "p1dir", "p1out", "bcsctl3", "bcsctl1", "ta0ccr0",
           "ta0ctl", "ta0cctl1", "ta0ccr1", "enable", "set", "free_read">>
    ELSE <<"steal", "wdtctl", "p1dir", "p1out", "bcsctl3", "bcsctl1", "ta0ccr0",
           "ta0ctl", "ta0cctl1", "ta0ccr1", "enable", "free_read">>

\* main without the set of PERIPHERALS.
MainOrderNoSet(pat) ==
    IF pat = "A"
    THEN <<"take", "wdtctl", "p1dir", "p1out", "bcsctl3", "bcsctl1", "ta0ccr0",
           "ta0ctl", "ta0cctl1", "ta0ccr1", "enable", "free_read">>
    ELSE <<"steal", "wdtctl", "p1dir", "p1out", "bcsctl3", "bcsctl1", "ta0ccr0",
           "ta0ctl", "ta0cctl1", "ta0ccr1", "enable", "free_read">>

\* main writing TA0CCR1 ahead of enabling the match interrupt.
MainOrderCcr1First(pat) ==
    IF pat = "A"
    THEN <<"take", "wdtctl", "p1dir", "p1out", "bcsctl3", "bcsctl1", "ta0ccr0",
           "ta0ctl", "ta0ccr1", "ta0cctl1", "set", "enable", "free_read">>
    ELSE <<"steal", "wdtctl", "p1dir", "p1out", "bcsctl3", "bcsctl1", "ta0ccr0",
           "ta0ctl", "ta0ccr1", "ta0cctl1", "enable", "free_read">>

\* main with the unmask ahead of the last timer write.
MainOrderEnableEarly(pat) ==
    IF pat = "A"
    THEN <<"take", "wdtctl", "p1dir", "p1out", "bcsctl3", "bcsctl1", "ta0ccr0",
           "ta0ctl", "ta0cctl1", "enable", "ta0ccr1", "set", "free_read">>
    ELSE <<"steal", "wdtctl", "p1dir", "p1out", "bcsctl3", "bcsctl1", "ta0ccr0",
           "ta0ctl", "ta0cctl1", "enable", "ta0ccr1", "free_read">>

\* The statements of main up to the loop, in program order.
MainOrder(pat) ==
    IF pat = "A"
    THEN <<"take", "wdtctl", "p1dir", "p1out", "bcsctl3", "bcsctl1", "ta0ccr0",
           "ta0ctl", "ta0cctl1", "ta0ccr1", "set", "enable", "free_read">>
    ELSE <<"steal", "wdtctl", "p1dir", "p1out", "bcsctl3", "bcsctl1", "ta0ccr0",
           "ta0ctl", "ta0cctl1", "ta0ccr1", "enable", "free_read">>

Index(seq, x) == CHOOSE i \in 1..Len(seq) : seq[i] = x

\* The statement after p.
After(pat, p) == MainOrder(pat)[Index(MainOrder(pat), p) + 1]

\* main runs when the handler is not active and nothing has panicked.
MainAt(p) == pc = p /\ hpc = "idle" /\ ~halted

\* The positions of main at a register access of the initializer.
InitPcs == {"wdtctl", "p1dir", "p1out", "bcsctl3", "bcsctl1", "ta0ccr0", "ta0ctl",
            "ta0cctl1", "ta0ccr1"}

----------------------------------------------------------------------------
(* The two programs as functions of a state and an event of the schedule:  *)
(* "main" (main executes its next statement), "match" (the timer reaches   *)
(* TA0CCR1), "entry" (the CPU accepts the interrupt), "isr" (the handler   *)
(* executes its next statement).                                           *)

Events == {"main", "match", "entry", "isr"}

\* The program state held in the variables.
Rec ==
    [pattern |-> pattern, pc |-> pc, hpc |-> hpc, gie |-> gie, stack |-> stack,
     status |-> status, cs |-> cs, taken |-> taken, cell |-> cell, regs |-> regs,
     matches |-> matches, entries |-> entries, served |-> served,
     unmasks |-> unmasks, halted |-> halted, trace |-> trace, cleared |-> cleared]

\* The state of program pat after reset, with registers r.
InitRec(pat, r) ==
    [pattern |-> pat, pc |-> MainOrder(pat)[1], hpc |-> "idle", gie |-> FALSE,
     stack |-> <<>>, status |-> FALSE, cs |-> {"main"}, taken |-> FALSE,
     cell |-> Empty, regs |-> r, matches |-> 0, entries |-> 0, served |-> 0,
     unmasks |-> 0, halted |-> FALSE, trace |-> <<>>, cleared |-> 0]

\* The initializer's access at statement p, applied to registers r.
RegWrite(p, r) ==
    CASE p = "wdtctl" -> WriteWdtctl(r)
      [] p = "p1dir" -> ModifyP1dir(r)
      [] p = "p1out" -> InitP1out(r)
      [] p = "bcsctl3" -> ModifyBcsctl3(r)
      [] p = "bcsctl1" -> ModifyBcsctl1(r)
      [] p = "ta0ccr0" -> WriteTa0ccr0(r)
      [] p = "ta0ctl" -> ModifyTa0ctl(r)
      [] p = "ta0cctl1" -> EnableCcie(r)
      [] p = "ta0ccr1" -> WriteTa0ccr1(r)

\* An access made in state s, leaving registers r2.
AccessAt(s, ctx, reg, r2) ==
    [ctx |-> ctx, reg |-> reg, changed |-> Changed(s.regs, r2), gie |-> s.gie,
     unmasks |-> s.unmasks]

\* main's next statement.
MainStatement(s) ==
    LET p == s.pc
        next == After(s.pattern, p)
    IN
    CASE p = "take" ->
           IF take(s.taken).ret = "None"
           THEN [s EXCEPT !.taken = take(s.taken).taken, !.halted = TRUE]
           ELSE [s EXCEPT !.taken = take(s.taken).taken, !.pc = next]
      [] p = "steal" -> [s EXCEPT !.taken = steal(s.taken).taken, !.pc = next]
      [] p \in InitPcs ->
           [s EXCEPT !.regs = RegWrite(p, s.regs),
                     !.trace = Append(@, AccessAt(s, "main", p, RegWrite(p, s.regs))),
                     !.pc = next]
      [] p = "set" ->
           IF CellSet(s.cell, Periph).ret = "Ok"
           THEN [s EXCEPT !.cell = CellSet(s.cell, Periph).cell, !.pc = next]
           ELSE [s EXCEPT !.cell = CellSet(s.cell, Periph).cell, !.halted = TRUE]
      [] p = "enable" ->
           [s EXCEPT !.gie = TRUE, !.cs = @ \ {"main"}, !.unmasks = @ + 1, !.pc = next]
      [] p = "free_read" -> [s EXCEPT !.status = s.gie, !.pc = "free_disable"]
      [] p = "free_disable" ->
           [s EXCEPT !.gie = FALSE, !.cs = @ \cup {"free"}, !.pc = "free_body"]
      [] p = "free_body" -> [s EXCEPT !.cs = @ \ {"free"}, !.pc = "free_restore"]
      [] p = "free_restore" ->
           [s EXCEPT !.gie = FreeRestore(s.status, s.gie), !.pc = "free_read"]

\* The handler's next statement.
HandlerStatement(s) ==
    LET h == s.hpc IN
    CASE h = "get" ->
           IF CellGet(s.cell) = "NotYetInitialized"
           THEN [s EXCEPT !.halted = TRUE]
           ELSE [s EXCEPT !.hpc = "ccifg"]
      [] h = "steal" -> [s EXCEPT !.taken = steal(s.taken).taken, !.hpc = "ccifg"]
      [] h = "ccifg" ->
           [s EXCEPT !.regs = ClearCcifg(s.regs),
                     !.trace = Append(@, AccessAt(s, "isr", "ta0cctl1", ClearCcifg(s.regs))),
                     !.cleared = s.matches,
                     !.hpc = "p1out"]
      [] h = "p1out" ->
           [s EXCEPT !.regs = ToggleP1out(s.regs),
                     !.trace = Append(@, AccessAt(s, "isr", "p1out", ToggleP1out(s.regs))),
                     !.hpc = "reti"]
      [] h = "reti" ->
           [s EXCEPT !.gie = Head(s.stack), !.stack = Tail(s.stack),
                     !.cs = @ \ {"isr"}, !.hpc = "idle", !.served = @ + 1]

\* Event ev can happen in state s.
CanDo(s, ev) ==
    CASE ev = "main" -> s.hpc = "idle" /\ ~s.halted
      [] ev = "match" -> s.regs.mc # 0 /\ s.matches < MaxMatches
      [] ev = "entry" -> ~s.halted /\ s.gie /\ s.regs.ccie /\ s.regs.ccifg
      [] ev = "isr" -> s.hpc # "idle" /\ ~s.halted

\* The state after event ev; a program that cannot follow is marked.
Step(s, ev) ==
    IF ~CanDo(s, ev) THEN [s EXCEPT !.pc = "stuck"]
    ELSE CASE ev = "main" -> MainStatement(s)
           [] ev = "match" -> [s EXCEPT !.regs.ccifg = TRUE, !.matches = @ + 1]
           [] ev = "entry" ->
                [s EXCEPT !.stack = <<s.gie>> \o @, !.gie = FALSE,
                          !.cs = @ \cup {"isr"},
                          !.hpc = IF s.pattern = "A" THEN "get" ELSE "steal",
                          !.entries = @ + 1]
           [] ev = "isr" -> HandlerStatement(s)

\* The twin after this program's event ev. The set of PERIPHERALS has no
\* counterpart in timer-unsafe.rs: a twin without it waits while this program
\* makes it, and a twin with it makes it on the way to the next statement.
Follow(ev) ==
    IF ev = "main" /\ pc = "set" /\ twin.pc # "set" THEN twin
    ELSE IF ev = "main" /\ twin.pc = "set" /\ pc # "set"
         THEN Step(Step(twin, "main"), "main")
         ELSE Step(twin, ev)

\* let p = Peripherals::take().unwrap();
MainTake ==
    /\ MainAt("take")
    /\ LET t == take(taken) IN
         /\ taken' = t.taken
         /\ IF t.ret = "None"
            THEN halted' = TRUE /\ pc' = pc
            ELSE halted' = halted /\ pc' = After(pattern, "take")
    /\ UNCHANGED <<pattern, hpc, gie, stack, status, cs, cell, regs, matches,
                   entries, served, unmasks>>
    /\ twin' = Follow("main")
    /\ UNCHANGED apiVars
    /\ UNCHANGED logVars

\* let p = unsafe { Peripherals::steal() };
MainSteal ==
    /\ MainAt("steal")
    /\ taken' = steal(taken).taken
    /\ pc' = After(pattern, "steal")
    /\ UNCHANGED <<pattern, hpc, gie, stack, status, cs, cell, regs, matches,
                   entries, served, unmasks, halted>>
    /\ twin' = Follow("main")
    /\ UNCHANGED apiVars
    /\ UNCHANGED logVars

\* One register access of the initializer.
MainReg(p, written) ==
    /\ MainAt(p)
    /\ regs' = written
    /\ trace' = Append(trace, Access("main", p, regs, written))
    /\ pc' = After(pattern, p)
    /\ UNCHANGED <<pattern, hpc, gie, stack, status, cs, taken, cell, matches,
                   entries, served, unmasks, halted>>
    /\ twin' = Follow("main")
    /\ UNCHANGED apiVars
    /\ UNCHANGED <<cleared, entry>>

MainWdtctl == MainReg("wdtctl", WriteWdtctl(regs))
MainP1dir == MainReg("p1dir", ModifyP1dir(regs))
MainP1out == MainReg("p1out", InitP1out(regs))
MainBcsctl3 == MainReg("bcsctl3", ModifyBcsctl3(regs))
MainBcsctl1 == MainReg("bcsctl1", ModifyBcsctl1(regs))
MainTa0ccr0 == MainReg("ta0ccr0", WriteTa0ccr0(regs))
MainTa0ctl == MainReg("ta0ctl", ModifyTa0ctl(regs))
MainTa0cctl1 == MainReg("ta0cctl1", EnableCcie(regs))
MainTa0ccr1 == MainReg("ta0ccr1", WriteTa0ccr1(regs))

\* PERIPHERALS.borrow(&cs).set(p).ok().unwrap();
MainSet ==
    /\ MainAt("set")
    /\ LET s == CellSet(cell, Periph) IN
         /\ cell' = s.cell
         /\ IF s.ret = "Ok"
            THEN halted' = halted /\ pc' = After(pattern, "set")
            ELSE halted' = TRUE /\ pc' = pc
    /\ UNCHANGED <<pattern, hpc, gie, stack, status, cs, taken, regs, matches,
                   entries, served, unmasks>>
    /\ twin' = Follow("main")
    /\ UNCHANGED apiVars
    /\ UNCHANGED logVars

\* mspint::enable_cs(cs): the token is consumed and GIE set.
MainEnable ==
    /\ MainAt("enable")
    /\ gie' = TRUE
    /\ cs' = cs \ {"main"}
    /\ unmasks' = unmasks + 1
    /\ pc' = After(pattern, "enable")
    /\ UNCHANGED <<pattern, hpc, stack, status, taken, cell, regs, matches,
                   entries, served, halted>>
    /\ twin' = Follow("main")
    /\ UNCHANGED apiVars
    /\ UNCHANGED logVars

\* mspint::free, entry: the status register is read.
FreeRead ==
    /\ MainAt("free_read")
    /\ status' = gie
    /\ pc' = "free_disable"
    /\ UNCHANGED <<pattern, hpc, gie, stack, cs, taken, cell, regs, matches,
                   entries, served, unmasks, halted>>
    /\ twin' = Follow("main")
    /\ UNCHANGED apiVars
    /\ UNCHANGED logVars

\* A free that hands out its token without disabling interrupts.
FreeDisableNoMask ==
    /\ MainAt("free_disable")
    /\ cs' = cs \cup {"free"}
    /\ pc' = "free_body"
    /\ UNCHANGED <<pattern, hpc, gie, stack, status, taken, cell, regs, matches,
                   entries, served, unmasks, halted>>
    /\ twin' = Follow("main")
    /\ UNCHANGED apiVars
    /\ UNCHANGED logVars

\* mspint::free: interrupts are disabled and the closure gets its token.
FreeDisable ==
    /\ MainAt("free_disable")
    /\ gie' = FALSE
    /\ cs' = cs \cup {"free"}
    /\ pc' = "free_body"
    /\ UNCHANGED <<pattern, hpc, stack, status, taken, cell, regs, matches,
                   entries, served, unmasks, halted>>
    /\ twin' = Follow("main")
    /\ UNCHANGED apiVars
    /\ UNCHANGED logVars

\* |_cs| { /* Do something while interrupts are disabled. */ }
FreeBody ==
    /\ MainAt("free_body")
    /\ cs' = cs \ {"free"}
    /\ pc' = "free_restore"
    /\ UNCHANGED <<pattern, hpc, gie, stack, status, taken, cell, regs, matches,
                   entries, served, unmasks, halted>>
    /\ twin' = Follow("main")
    /\ UNCHANGED apiVars
    /\ UNCHANGED logVars

\* A free that returns without giving GIE back.
FreeExitStayMasked ==
    /\ MainAt("free_restore")
    /\ pc' = "free_read"
    /\ UNCHANGED <<pattern, hpc, gie, stack, status, cs, taken, cell, regs, matches,
                   entries, served, unmasks, halted>>
    /\ twin' = Follow("main")
    /\ UNCHANGED apiVars
    /\ UNCHANGED logVars

\* mspint::free, exit: GIE as it was on entry; the loop starts over.
FreeExit ==
    /\ MainAt("free_restore")
    /\ gie' = FreeRestore(status, gie)
    /\ pc' = "free_read"
    /\ UNCHANGED <<pattern, hpc, stack, status, cs, taken, cell, regs, matches,
                   entries, served, unmasks, halted>>
    /\ twin' = Follow("main")
    /\ UNCHANGED apiVars
    /\ UNCHANGED logVars

----------------------------------------------------------------------------
(* The timer and the interrupt.                                            *)

\* The running timer counts to TA0CCR1: the match-pending flag is set.
CompareMatch ==
    /\ pc # "api"
    /\ regs.mc # 0
    /\ matches < MaxMatches
    /\ regs' = [regs EXCEPT !.ccifg = TRUE]
    /\ matches' = matches + 1
    /\ UNCHANGED <<pattern, pc, hpc, gie, stack, status, cs, taken, cell,
                   entries, served, unmasks, halted>>
    /\ twin' = Follow("match")
    /\ UNCHANGED apiVars
    /\ UNCHANGED logVars

\* The CPU accepts the interrupt.
Accepts == gie /\ regs.ccie /\ regs.ccifg

\* An interrupt entry that leaves GIE set.
InterruptEntryNoMask ==
    /\ pc # "api"
    /\ ~halted
    /\ hpc = "idle"
    /\ Accepts
    /\ stack' = <<gie>> \o stack
    /\ cs' = cs \cup {"isr"}
    /\ hpc' = IF pattern = "A" THEN "get" ELSE "steal"
    /\ entries' = entries + 1
    /\ entry' = Snap(Empty)
    /\ UNCHANGED <<pattern, pc, gie, status, taken, cell, regs, matches, served,
                   unmasks, halted>>
    /\ twin' = Follow("entry")
    /\ UNCHANGED apiVars
    /\ UNCHANGED <<trace, cleared>>

\* An interrupt entry that leaves GIE set, so that a pending match is accepted
\* inside the handler too.
InterruptEntryNested ==
    /\ pc # "api"
    /\ ~halted
    /\ Len(stack) < 2
    /\ Accepts
    /\ stack' = <<gie>> \o stack
    /\ cs' = cs \cup {"isr"}
    /\ hpc' = IF pattern = "A" THEN "get" ELSE "steal"
    /\ entries' = entries + 1
    /\ entry' = Snap(Empty)
    /\ UNCHANGED <<pattern, pc, gie, status, taken, cell, regs, matches, served,
                   unmasks, halted>>
    /\ twin' = Follow("entry")
    /\ UNCHANGED apiVars
    /\ UNCHANGED <<trace, cleared>>

\* Interrupt entry: SR is pushed and GIE cleared; the handler gets its token.
InterruptEntry ==
    /\ pc # "api"
    /\ ~halted
    /\ Accepts
    /\ stack' = <<gie>> \o stack
    /\ gie' = FALSE
    /\ cs' = cs \cup {"isr"}
    /\ hpc' = IF pattern = "A" THEN "get" ELSE "steal"
    /\ entries' = entries + 1
    /\ entry' = Snap(Empty)
    /\ UNCHANGED <<pattern, pc, status, taken, cell, regs, matches, served,
                   unmasks, halted>>
    /\ twin' = Follow("entry")
    /\ UNCHANGED apiVars
    /\ UNCHANGED <<trace, cleared>>

\* let p = PERIPHERALS.borrow(&cs).get().unwrap();
HandlerGet ==
    /\ hpc = "get" /\ ~halted
    /\ IF CellGet(cell) = "NotYetInitialized"
       THEN halted' = TRUE /\ hpc' = hpc
       ELSE halted' = halted /\ hpc' = "ccifg"
    /\ UNCHANGED <<pattern, pc, gie, stack, status, cs, taken, cell, regs,
                   matches, entries, served, unmasks>>
    /\ twin' = Follow("isr")
    /\ UNCHANGED apiVars
    /\ UNCHANGED logVars

\* let p = unsafe { Peripherals::steal() };
HandlerSteal ==
    /\ hpc = "steal" /\ ~halted
    /\ taken' = steal(taken).taken
    /\ hpc' = "ccifg"
    /\ UNCHANGED <<pattern, pc, gie, stack, status, cs, cell, regs, matches,
                   entries, served, unmasks, halted>>
    /\ twin' = Follow("isr")
    /\ UNCHANGED apiVars
    /\ UNCHANGED logVars

\* timer.ta0cctl1.modify(|_, w| w.ccifg().clear_bit());
HandlerClear ==
    /\ hpc = "ccifg" /\ ~halted
    /\ regs' = ClearCcifg(regs)
    /\ trace' = Append(trace, Access("isr", "ta0cctl1", regs, ClearCcifg(regs)))
    /\ cleared' = matches
    /\ hpc' = "p1out"
    /\ UNCHANGED <<pattern, pc, gie, stack, status, cs, taken, cell, matches,
                   entries, served, unmasks, halted>>
    /\ twin' = Follow("isr")
    /\ UNCHANGED apiVars
    /\ UNCHANGED entry

\* port_1_2.p1out.modify(... toggle p0 and p6 ...);
HandlerToggle ==
    /\ hpc = "p1out" /\ ~halted
    /\ regs' = ToggleP1out(regs)
    /\ trace' = Append(trace, Access("isr", "p1out", regs, ToggleP1out(regs)))
    /\ hpc' = "reti"
    /\ UNCHANGED <<pattern, pc, gie, stack, status, cs, taken, cell, matches,
                   entries, served, unmasks, halted>>
    /\ twin' = Follow("isr")
    /\ UNCHANGED apiVars
    /\ UNCHANGED <<cleared, entry>>

\* Return from interrupt: SR is popped.
HandlerReturn ==
    /\ hpc = "reti" /\ ~halted
    /\ gie' = Head(stack)
    /\ stack' = Tail(stack)
    /\ cs' = cs \ {"isr"}
    /\ hpc' = "idle"
    /\ served' = served + 1
    /\ UNCHANGED <<pattern, pc, status, taken, cell, regs, matches, entries,
                   unmasks, halted>>
    /\ twin' = Follow("isr")
    /\ UNCHANGED apiVars
    /\ UNCHANGED logVars

----------------------------------------------------------------------------

\* After reset: interrupts masked, main entered with its token.
Init ==
    /\ pattern \in {"A", "B"}
    /\ pc = MainOrder(pattern)[1]
    /\ hpc = "idle"
    /\ gie = FALSE
    /\ stack = <<>>
    /\ status = FALSE
    /\ cs = {"main"}
    /\ taken = FALSE
    /\ cell = Empty
    /\ regs \in ResetRegs
    /\ matches = 0 /\ entries = 0 /\ served = 0 /\ unmasks = 0
    /\ op = "none" /\ ret = "none" /\ pre = Snap(Empty) /\ calls = 0
    /\ first = Fresh(regs)
    /\ halted = FALSE
    /\ trace = <<>> /\ cleared = 0 /\ entry = Snap(Empty)
    /\ twin \in {InitRec(pat, regs) : pat \in {"A", "B"}}

Next ==
    \/ MainTake \/ MainSteal
    \/ MainWdtctl \/ MainP1dir \/ MainP1out \/ MainBcsctl3 \/ MainBcsctl1
    \/ MainTa0ccr0 \/ MainTa0ctl \/ MainTa0cctl1 \/ MainTa0ccr1
    \/ MainSet \/ MainEnable
    \/ FreeRead \/ FreeDisable \/ FreeBody \/ FreeExit
    \/ CompareMatch \/ InterruptEntry
    \/ HandlerGet \/ HandlerSteal \/ HandlerClear \/ HandlerToggle \/ HandlerReturn

Spec == Init /\ [][Next]_vars

\* The statements of main, and those of the handler.
MainStep ==
    \/ MainTake \/ MainSteal
    \/ MainWdtctl \/ MainP1dir \/ MainP1out \/ MainBcsctl3 \/ MainBcsctl1
    \/ MainTa0ccr0 \/ MainTa0ctl \/ MainTa0cctl1 \/ MainTa0ccr1
    \/ MainSet \/ MainEnable
    \/ FreeRead \/ FreeDisable \/ FreeBody \/ FreeExit

HandlerStep ==
    HandlerGet \/ HandlerSteal \/ HandlerClear \/ HandlerToggle \/ HandlerReturn

\* The CPU keeps executing the context it is in, and accepts a pending enabled
\* interrupt at an instruction boundary where GIE is set: main's loop sets
\* and clears GIE over and over, so the entry is enabled again and again.
SpecLive ==
    /\ Init /\ [][Next]_vars
    /\ WF_vars(MainStep)
    /\ WF_vars(HandlerStep)
    /\ SF_vars(InterruptEntry)

----------------------------------------------------------------------------
(* The operations on their own, applied in every order.                    *)

\* What a masked region may be asked to run: nothing (as the loop of main
\* does), a cell access, or an action that sets GIE itself.
InnerActions == {<<"nop", Empty>>, <<"enable", Empty>>, <<"get", Empty>>}
                    \cup {<<"set", v>> : v \in Values}

\* The action a, run on st = [gie, cell, ret].
Inner(a, st) ==
    CASE a[1] = "nop" -> st
      [] a[1] = "enable" -> [st EXCEPT !.gie = TRUE]
      [] a[1] = "get" -> [st EXCEPT !.ret = CellGet(st.cell)]
      [] a[1] = "set" -> [st EXCEPT !.cell = CellSet(st.cell, a[2]).cell,
                                    !.ret = CellSet(st.cell, a[2]).ret]

\* interrupt::free(a): read SR, disable, run a with a token, restore.
RunMasked(a, st) ==
    LET saved == st.gie
        in == Inner(a, [st EXCEPT !.gie = FALSE])
    IN  [in EXCEPT !.gie = FreeRestore(saved, in.gie)]

ApiAt == pc = "api" /\ ~halted /\ calls < MaxCalls

\* Peripherals::take()
ApiTake ==
    /\ ApiAt
    /\ LET t == take(taken) IN
         /\ taken' = t.taken
         /\ ret' = t.ret
         /\ first' = [first EXCEPT !.takes = @ + 1,
                                   !.somes = @ + (IF t.ret = "None" THEN 0 ELSE 1)]
    /\ op' = "take" /\ pre' = Snap(Empty) /\ calls' = calls + 1
    /\ UNCHANGED <<gie, cell, regs, halted>>
    /\ UNCHANGED progVars
    /\ UNCHANGED twin
    /\ UNCHANGED logVars

\* interrupt::free(a)
ApiMasked ==
    /\ ApiAt
    /\ \E a \in InnerActions :
         LET st == RunMasked(a, [gie |-> gie, cell |-> cell, ret |-> "unit"]) IN
           /\ gie' = st.gie
           /\ cell' = st.cell
           /\ ret' = st.ret
           /\ op' = a[1]
           /\ pre' = Snap(a[2])
           /\ first' = IF a[1] = "set"
                       THEN [first EXCEPT !.sets = @ + 1,
                                          !.stored = IF first.sets = 0 THEN a[2] ELSE @]
                       ELSE first
    /\ calls' = calls + 1
    /\ UNCHANGED <<taken, regs, halted>>
    /\ UNCHANGED progVars
    /\ UNCHANGED twin
    /\ UNCHANGED logVars

\* interrupt::enable_cs
ApiUnmask ==
    /\ ApiAt
    /\ gie' = TRUE
    /\ op' = "unmask" /\ ret' = "unit" /\ pre' = Snap(Empty) /\ calls' = calls + 1
    /\ UNCHANGED <<taken, cell, regs, first, halted>>
    /\ UNCHANGED progVars
    /\ UNCHANGED twin
    /\ UNCHANGED logVars

\* The simulated register gets its match-pending flag set.
ApiMatch ==
    /\ ApiAt
    /\ regs' = [regs EXCEPT !.ccifg = TRUE]
    /\ op' = "match" /\ ret' = "unit" /\ pre' = Snap(Empty) /\ calls' = calls + 1
    /\ UNCHANGED <<gie, taken, cell, first, halted>>
    /\ UNCHANGED progVars
    /\ UNCHANGED twin
    /\ UNCHANGED logVars

\* The initializer's write of the initial output levels.
ApiInitOut ==
    /\ ApiAt
    /\ regs' = InitP1out(regs)
    /\ first' = [first EXCEPT !.inited = TRUE, !.out0 = InitP1out(regs).p1out, !.n = 0]
    /\ op' = "init" /\ ret' = "unit" /\ pre' = Snap(Empty) /\ calls' = calls + 1
    /\ UNCHANGED <<gie, taken, cell, halted>>
    /\ UNCHANGED progVars
    /\ UNCHANGED twin
    /\ UNCHANGED logVars

\* One invocation of TIMER0_A1, start to end.
ApiHandler ==
    /\ ApiAt
    /\ LET got == IF pattern = "A" THEN CellGet(cell) ELSE steal(taken).ret IN
         /\ ret' = got
         /\ IF got = "NotYetInitialized"
            THEN halted' = TRUE /\ regs' = regs /\ first' = first
            ELSE /\ halted' = halted
                 /\ regs' = HandlerBody(regs)
                 /\ first' = [first EXCEPT !.n = @ + 1]
    /\ op' = "handler" /\ pre' = Snap(Empty) /\ calls' = calls + 1
    /\ UNCHANGED <<gie, taken, cell>>
    /\ UNCHANGED progVars
    /\ UNCHANGED twin
    /\ UNCHANGED logVars

InitApi ==
    /\ pattern \in {"A", "B"}
    /\ pc = "api"
    /\ hpc = "idle"
    /\ gie = FALSE
    /\ stack = <<>>
    /\ status = FALSE
    /\ cs = {"main"}
    /\ taken = FALSE
    /\ cell = Empty
    /\ regs \in ResetRegs
    /\ matches = 0 /\ entries = 0 /\ served = 0 /\ unmasks = 0
    /\ op = "none" /\ ret = "none" /\ pre = Snap(Empty) /\ calls = 0
    /\ first = Fresh(regs)
    /\ halted = FALSE
    /\ trace = <<>> /\ cleared = 0 /\ entry = Snap(Empty)
    /\ twin = InitRec(pattern, regs)

NextApi ==
    \/ ApiTake \/ ApiMasked \/ ApiUnmask \/ ApiMatch \/ ApiInitOut \/ ApiHandler

SpecApi == InitApi /\ [][NextApi]_vars

----------------------------------------------------------------------------
(* Properties.                                                             *)

\* The positions of main inside its loop, and those outside a masked region.
LoopPcs == {"free_read", "free_disable", "free_body", "free_restore"}
Unmasked == {"free_read", "free_disable"}

\* Every register write of the initializer has been made (P1OUT aside, which
\* the handler rewrites).
InitWritten(r) ==
    /\ r.wdtpw = 23040 /\ r.wdthold
    /\ r.p1dir[0] /\ r.p1dir[6]
    /\ r.lfxt1s = 2 /\ r.diva = 1
    /\ r.ta0ccr0 = 1200 /\ r.tassel = 1 /\ r.mc = 1
    /\ r.ccie /\ r.ta0ccr1 = 600

\* C1: of any sequence of calls of take(), the first returns the Peripherals
\* and every later one returns None; the latch is set by the first call and
\* never cleared, so no second Peripherals is handed out.
C1_TakeOnce ==
    /\ taken <=> first.takes >= 1
    /\ first.somes = IF first.takes >= 1 THEN 1 ELSE 0
    /\ calls > 0 /\ pre.taken => taken
    /\ op = "take" => /\ ret = Periph <=> first.takes = 1
                      /\ first.takes > 1 => ret = "None"
                      /\ pre.taken <=> first.takes > 1

C1_Witness == op = "take" /\ first.takes = 3 /\ ret = "None" /\ first.somes = 1

\* C2: the cell only goes from empty to filled: a set on an empty cell
\* stores its argument and reports Ok, a set on a filled cell reports
\* AlreadyInitialized and keeps what is stored, and no operation empties a
\* filled cell or replaces its value.
C2_CellFillsOnce ==
    /\ calls > 0 /\ pre.cell # Empty => cell = pre.cell
    /\ op = "set" => IF pre.cell = Empty
                     THEN cell = pre.arg /\ ret = "Ok"
                     ELSE cell = pre.cell /\ ret = "AlreadyInitialized"
    /\ op # "set" /\ calls > 0 => cell = pre.cell

C2_Witness ==
    op = "set" /\ pre.cell # Empty /\ pre.arg # pre.cell /\ ret = "AlreadyInitialized"

\* C3: a get before any set yields NotYetInitialized; once a set has
\* succeeded every get, in a masked region of main or in the handler, yields
\* the value that set stored.
C3_GetStable ==
    (op = "get" \/ (op = "handler" /\ pattern = "A"))
        => ret = IF first.sets = 0 THEN "NotYetInitialized" ELSE first.stored

C3_Witness ==
    /\ op = "get" /\ first.sets = 2 /\ ret = first.stored
    /\ pre.cell = first.stored /\ calls = 4

\* C4: in timer-oncecell.rs the handler is never active with PERIPHERALS
\* empty, and its get never fails, in any interleaving with compare matches.
C4_HandlerSeesFilled ==
    pattern = "A" => /\ hpc # "idle" => cell = Periph
                     /\ entries > 0 => cell = Periph
                     /\ hpc = "get" => ~halted

C4_Witness == pattern = "A" /\ hpc = "ccifg" /\ cell = Periph /\ entries = 1

\* C5: a masked region leaves GIE as it found it, whether GIE was set or
\* clear on entry and whether or not the action run inside changed it.
C5_MaskedRestores ==
    op \in {"nop", "enable", "get", "set"} => gie = pre.gie

C5_Witness == op = "enable" /\ ~pre.gie /\ ~gie /\ calls > 1

\* C6: enable_cs is executed once, by main, after the initializer's register
\* writes (and after PERIPHERALS is filled in timer-oncecell.rs); GIE is clear
\* in every state before it. (A masked region of the loop giving GIE back on
\* its exit is not an unmask.)
C6_UnmaskOnce ==
    /\ unmasks <= 1
    /\ unmasks = 0 => ~gie /\ pc \notin LoopPcs /\ entries = 0
    /\ unmasks = 1 => /\ pc \in LoopPcs
                      /\ InitWritten(regs)
                      /\ pattern = "A" => cell = Periph

C6_Witness == unmasks = 1 /\ gie /\ pc = "free_read" /\ served > 0

\* C7: an invocation of the handler that finds the match-pending flag set
\* returns with the flag clear and with P1OUT bits 0 and 6 each the
\* complement of what it was, whatever the two bits were.
C7_HandlerOnce ==
    (op = "handler" /\ pre.regs.ccifg /\ ~halted)
        => /\ ~regs.ccifg
           /\ \A b \in Leds : regs.p1out[b] = ~pre.regs.p1out[b]

C7_Witness ==
    /\ op = "handler" /\ pre.regs.ccifg /\ ~halted
    /\ pre.regs.p1out[0] = pre.regs.p1out[6]

\* C8: the initializer leaves p0 = 1 and p6 = 0; n invocations of the handler
\* later the two bits are as they were for even n and complemented for odd n,
\* from the initializer's levels and from any other levels.
C8_ToggleLaw ==
    /\ first.inited => first.out0[0] /\ ~first.out0[6]
    /\ \A b \in Leds :
         regs.p1out[b] = IF first.n % 2 = 0 THEN first.out0[b] ELSE ~first.out0[b]

C8_Witness ==
    first.inited /\ first.n = 2 /\ op = "handler" /\ regs.p1out[0] /\ ~regs.p1out[6]

\* C9: the cell is accessed only with GIE clear: main's set and the handler's
\* get each run holding a token, every live token implies GIE clear, and
\* after enable_cs main holds a token only inside the closure of free.
C9_AccessMasked ==
    /\ cs # {} => ~gie
    /\ pc = "set" => "main" \in cs /\ ~gie
    /\ hpc = "get" => "isr" \in cs /\ ~gie
    /\ unmasks > 0 => /\ "main" \notin cs
                      /\ "free" \in cs <=> pc = "free_body"

C9_Witness == pattern = "A" /\ hpc = "get" /\ "isr" \in cs /\ ~gie /\ pc = "free_disable"

\* C10: the handler is active only after enable_cs and only with main
\* suspended outside a masked region; at every step boundary of main outside
\* a masked region GIE is set, so a pending enabled match is accepted there.
C10_Preemption ==
    /\ hpc # "idle" => /\ unmasks = 1
                       /\ pc \in Unmasked
                       /\ "free" \notin cs
    /\ (pc \in Unmasked /\ hpc = "idle") => gie
    /\ (pc \in Unmasked /\ hpc = "idle" /\ regs.ccie /\ regs.ccifg /\ ~halted)
           => ENABLED InterruptEntry

C10_Witness == hpc = "steal" /\ pc = "free_disable" /\ status /\ served > 0

\* The registers, and the contexts that accessed or changed each.
Registers == {RegOfField[f] : f \in DOMAIN RegOfField}
Touches(e, reg) == e.reg = reg \/ reg \in e.changed
Writers(reg) == {trace[i].ctx : i \in {j \in DOMAIN trace : Touches(trace[j], reg)}}

\* C11: in timer-unsafe.rs the two stolen views are used in disjoint spans:
\* main makes its register accesses before enable_cs only, the handler makes
\* its accesses between interrupt entry and return with GIE clear, GIE is
\* back to its value at entry after the return, and the handler is never
\* active while main still has a register access to make.
C11_DisjointViews ==
    pattern = "B" =>
        /\ \A i \in DOMAIN trace :
             /\ ~trace[i].gie
             /\ trace[i].ctx = "main" => trace[i].unmasks = 0
             /\ trace[i].ctx = "isr" => trace[i].unmasks = 1
        /\ pc \in InitPcs => unmasks = 0 /\ hpc = "idle"
        /\ hpc # "idle" => ~gie /\ pc \in LoopPcs /\ stack = <<entry.gie>>
        /\ (hpc = "idle" /\ served > 0 /\ pc \in Unmasked) => gie = entry.gie

C11_Witness ==
    /\ pattern = "B" /\ hpc = "idle" /\ served = 1 /\ pc = "free_disable"
    /\ Len(trace) = 11 /\ trace[11].ctx = "isr" /\ gie

\* C12, as stated: no register is mutated by both the initializer and the
\* handler.
C12_Original == \A reg \in Registers : Cardinality(Writers(reg)) <= 1

\* C12, amended: P1OUT and TA0CCTL1 are mutated by the initializer and by the
\* handler; every other register is mutated by the initializer alone; and on
\* the two shared registers every write of the initializer is made before
\* enable_cs and ahead of every write of the handler.
C12_SharedRegisters ==
    /\ \A reg \in Registers \ {"p1out", "ta0cctl1"} : Writers(reg) \subseteq {"main"}
    /\ \A i \in DOMAIN trace : \A j \in DOMAIN trace :
         (trace[i].ctx = "main" /\ trace[j].ctx = "isr")
             => i < j /\ trace[i].unmasks = 0 /\ ~trace[j].gie
    /\ served > 0 => /\ Writers("p1out") = {"main", "isr"}
                     /\ Writers("ta0cctl1") = {"main", "isr"}

C12_Witness ==
    /\ Writers("p1out") = {"main", "isr"} /\ Writers("ta0cctl1") = {"main", "isr"}
    /\ served = 2

\* C13: at most one activation of TIMER0_A1 is in progress, also when a
\* further compare match sets the pending flag while one is being serviced.
C13_NoNesting ==
    /\ Len(stack) <= 1
    /\ entries - served = IF hpc = "idle" THEN 0 ELSE 1
    /\ hpc # "idle" => Len(stack) = 1 /\ ~ENABLED InterruptEntry

C13_Witness ==
    hpc = "p1out" /\ regs.ccifg /\ regs.ccie /\ Len(stack) = 1 /\ entries = served + 1

\* The handler's clears of CCIFG so far.
Clears ==
    Cardinality({i \in DOMAIN trace : trace[i].ctx = "isr" /\ trace[i].reg = "ta0cctl1"})

\* C14: the handler clears the pending flag before it returns, and the
\* interrupt is not entered again without a new match: entries never exceed
\* matches, each completed activation has made its clear, and the flag is set
\* exactly when a match occurred after the last clear.
C14_ClearedBeforeReturn ==
    /\ entries <= matches
    /\ served <= Clears /\ Clears <= entries
    /\ hpc \in {"p1out", "reti"} => Clears = entries
    /\ regs.ccifg <=> matches > cleared

C14_Witness == hpc = "reti" /\ regs.ccifg /\ matches = cleared + 1 /\ entries = 2

\* The registers main has accessed, in order of access.
MainAccesses == SelectSeq(trace, LAMBDA e : e.ctx = "main")
MainRegs == [i \in 1..Len(MainAccesses) |-> MainAccesses[i].reg]

IsPrefix(a, b) == Len(a) <= Len(b) /\ \A i \in 1..Len(a) : a[i] = b[i]

\* C15, as stated: watchdog, GPIO directions, GPIO levels, clock source,
\* clock divider, compare register 0, timer control, compare register 1, and
\* last the match-interrupt enable.
C15_Original ==
    IsPrefix(MainRegs, <<"wdtctl", "p1dir", "p1out", "bcsctl3", "bcsctl1", "ta0ccr0",
                         "ta0ctl", "ta0ccr1", "ta0cctl1">>)

\* C15, amended: the same order up to timer control, then the
\* match-interrupt enable (TA0CCTL1), and last compare register 1 (TA0CCR1).
C15_InitOrder ==
    LET order == <<"wdtctl", "p1dir", "p1out", "bcsctl3", "bcsctl1", "ta0ccr0",
                   "ta0ctl", "ta0cctl1", "ta0ccr1">>
    IN  /\ IsPrefix(MainRegs, order)
        /\ pc \notin InitPcs \cup {"take", "steal"} => MainRegs = order
        /\ \A i \in 1..Len(MainAccesses) :
             MainAccesses[i].changed \subseteq {MainAccesses[i].reg}

C15_Witness ==
    /\ Len(MainRegs) = 9 /\ MainRegs[8] = "ta0cctl1" /\ MainRegs[9] = "ta0ccr1"
    /\ regs.ccie /\ regs.ta0ccr1 = 600 /\ pc \in {"set", "enable"}

\* C16: from interrupt entry on, an activation of the handler has changed
\* nothing but CCIFG and P1OUT bits 0 and 6: every other register field, the
\* other bits of P1OUT, PERIPHERALS and the take latch are as they were at
\* entry, and so is GIE once the handler has returned.
C16_HandlerFrame ==
    entries > 0 =>
        /\ \A f \in DOMAIN regs \ {"ccifg", "p1out"} : regs[f] = entry.regs[f]
        /\ \A b \in Bits \ Leds : regs.p1out[b] = entry.regs.p1out[b]
        /\ cell = entry.cell
        /\ taken = entry.taken
        /\ (hpc = "idle" /\ pc \in Unmasked) => gie = entry.gie

C16_Witness ==
    /\ hpc = "idle" /\ served = 1 /\ entries = 1 /\ entry.regs.ccifg /\ ~regs.ccifg
    /\ regs.p1out[0] # entry.regs.p1out[0] /\ regs.p1out[6] # entry.regs.p1out[6]

\* C17: timer-oncecell.rs never panics: take succeeds (the latch is set by
\* main's one call), the set succeeds (the cell is filled by main's one
\* call, made before enable_cs), and the handler's get finds the cell filled.
C17_NoPanic ==
    pattern = "A" =>
        /\ ~halted
        /\ taken <=> pc # "take"
        /\ cell = Periph <=> pc \in {"enable"} \cup LoopPcs
        /\ cell = Empty <=> pc \in InitPcs \cup {"take", "set"}
        /\ hpc # "idle" => cell = Periph

C17_Witness == pattern = "A" /\ ~halted /\ served = 2 /\ pc = "free_body" /\ taken

\* C18: after enable_cs a pending match is eventually cleared by an
\* activation of the handler; a masked region of the loop always ends, with
\* GIE set again; and main keeps going round its loop.
C18_EventuallyServiced ==
    /\ \A k \in 0..MaxMatches :
         (regs.ccifg /\ unmasks = 1 /\ Clears = k) ~> (Clears > k)
    /\ (pc \in LoopPcs \ Unmasked) ~> (pc = "free_read" /\ gie)
    /\ []<>(pc = "free_disable" /\ hpc = "idle")

C18_Witness ==
    regs.ccifg /\ unmasks = 1 /\ pc = "free_body" /\ hpc = "idle" /\ ~gie /\ served = 1

----------------------------------------------------------------------------
\* What the hardware shows of a program: the registers, the interrupt-enable
\* flag, and the register accesses so far, each with the flag it was made under.
Hardware(s) == [regs |-> s.regs, gie |-> s.gie, trace |-> s.trace]

\* A statement's name, up to the statements the two programs do not share:
\* take and steal open both, the set of PERIPHERALS precedes the unmasking in
\* timer-oncecell.rs alone, get and steal open both handlers.
Shared(p) ==
    CASE p \in {"take", "steal", "get"} -> "obtain"
      [] p = "set" -> "enable"
      [] OTHER -> p

\* Everything of a program but the take latch and the cell.
Rest(s) ==
    [pc |-> Shared(s.pc), hpc |-> Shared(s.hpc), stack |-> s.stack,
     status |-> s.status, cs |-> s.cs, matches |-> s.matches,
     entries |-> s.entries, served |-> s.served, unmasks |-> s.unmasks,
     halted |-> s.halted, cleared |-> s.cleared]

\* C19: timer-oncecell.rs and timer-unsafe.rs are observationally equivalent on
\* the hardware. Run on the same compare matches in the same interleaving, the
\* twin can follow every event of this program and this program every event
\* of the twin, both show the same registers, the same interrupt-enable flag
\* and the same sequence of register accesses, and they agree on everything
\* else but the take latch and the cell; a twin of the same pattern is in the
\* very state of this program.
C19_Equivalent ==
    /\ twin.pc # "stuck"
    /\ Hardware(twin) = Hardware(Rec)
    /\ Rest(twin) = Rest(Rec)
    /\ twin.pattern = pattern => twin = Rec
    /\ \A ev \in Events : CanDo(twin, ev) <=> CanDo(Rec, ev)
    /\ CanDo(Rec, "main") <=> ENABLED MainStep
    /\ CanDo(Rec, "match") <=> ENABLED CompareMatch
    /\ CanDo(Rec, "entry") <=> ENABLED InterruptEntry
    /\ CanDo(Rec, "isr") <=> ENABLED HandlerStep

\* The two patterns side by side after two handler runs, alike on the hardware
\* and apart in the latch and the cell.
C19_Witness ==
    /\ pattern = "A" /\ twin.pattern = "B"
    /\ served >= 2 /\ twin.served >= 2
    /\ Len(trace) = 13 /\ twin.trace = trace
    /\ taken # twin.taken /\ cell # twin.cell

====
